---- MODULE Spec2Model ----
(***************************************************************************)
(* Model of the bill-creation transaction (POST /api/bills) and of the     *)
(* sales-summary query pipeline (GET /api/sales/summary) of src/index.js,  *)
(* over a PostgreSQL store reached through a pg connection pool.           *)
(*                                                                         *)
(* One action is one resumption of an async handler: the Store executes    *)
(* the awaited statement and the handler runs synchronously up to its next *)
(* await (or to its end, the finally block included).                      *)
(*                                                                         *)
(*   Spec         concurrent createBill requests, a failure possible at    *)
(*                every statement                                          *)
(*   RaceSpec     the same, with a summary asked meanwhile                 *)
(*   SummarySpec  the summary over a store of whole bills, at rest while   *)
(*                the summary is computed                                  *)
(***************************************************************************)
EXTENDS Integers, Sequences, FiniteSets, TLC

(* ---------------------------------------------------------------- bounds *)
NumReqs == 2          \* concurrently running createBill requests
PoolMax == 2          \* capacity of the connection pool
MaxClock == 2         \* the wall clock runs 0..MaxClock
MaxSeed == 2          \* bills already in the store before a summary is asked
NProducts == 11       \* size of the product catalogue the inputs draw from
MaxQty == 2           \* largest quantity of a line item
TicksPerDay == 2      \* clock ticks in one calendar day (created_at::date)

(* ----------------------------------------------------- program constants *)
TopLimit == 10        \* LIMIT 10 of the top-products query

Reqs == 1..NumReqs
Conns == 1..PoolMax
Days == 0..(MaxClock \div TicksPerDay)

Nil == [nil |-> TRUE] \* JavaScript null / undefined where an object is expected
SqlNull == 0 - 1      \* SQL NULL in a numeric column (all amounts are >= 0)
NoDate == <<>>        \* an absent (or empty-string) query parameter
DateText(d) == <<d>>  \* the text YYYY-MM-DD of day d
NoClient == 0

(* -------------------------------------------------------------- inputs *)
Name(p) == (p + 1) \div 2
Price(p) == ((p * 3) % 5) + 1
Item(p, q) ==
  [product_id |-> p, name |-> Name(p), price |-> Price(p),
   mrp |-> Price(p) + 1, quantity |-> q]

RECURSIVE SumOver(_, _)
SumOver(s, field) ==
  IF s = <<>> THEN 0
  ELSE (IF Head(s) = Nil THEN 0
        ELSE IF field = "price" THEN Head(s).price * Head(s).quantity
        ELSE Head(s).mrp * Head(s).quantity)
       + SumOver(Tail(s), field)

\* req.body: items as sent, totals precomputed by the client
Body(kind, items) ==
  [kind |-> kind, items |-> items,
   total_amount |-> SumOver(items, "price"),
   total_mrp |-> SumOver(items, "mrp"),
   total_savings |-> SumOver(items, "mrp") - SumOver(items, "price"),
   created_by |-> "u1"]

\* kind "undefined": items missing; "string": a truthy non-array;
\* "array": a JSON array, whose elements are objects or null
Bodies ==
  { Body("undefined", <<>>), Body("string", <<>>), Body("array", <<>>),
    Body("array", <<Item(1, 1)>>),
    Body("array", <<Item(1, 1), Item(2, 2)>>),
    Body("array", <<Item(3, 1), Nil>>) }

(* --------------------------------------------------------------- state *)
VARIABLES
  bills,       \* committed rows of table bills
  bill_items,  \* committed rows of table bill_items
  seq,         \* the two id sequences of the tables
  clock,       \* wall clock of the Store
  conn,        \* the pool's connections: owner, transaction state, pending rows
  req,         \* the createBill requests
  sum          \* the sales-summary request

vars == <<bills, bill_items, seq, clock, conn, req, sum>>

FreshConn ==
  [owner |-> NoClient, tx |-> "idle", txStart |-> 0,
   pendBills |-> {}, pendItems |-> {}, broken |-> FALSE]

IdleReq ==
  [pc |-> "idle", body |-> Body("undefined", <<>>), client |-> NoClient,
   billId |-> 0, idx |-> 1, err |-> Nil, status |-> 0, payload |-> Nil,
   thrown |-> FALSE, acquired |-> 0, released |-> 0, issued |-> {}]

IdleSum ==
  [pc |-> "idle", start |-> NoDate, end |-> NoDate,
   summaryResult |-> Nil, itemsResult |-> Nil, topProductsResult |-> <<>>,
   topKeys |-> <<>>, seen |-> <<{}, {}, {}>>, status |-> 0, payload |-> Nil]

Init ==
  /\ bills = {}
  /\ bill_items = {}
  /\ seq = [bill |-> 1, item |-> 1]
  /\ clock = 0
  /\ conn = [c \in Conns |-> FreshConn]
  /\ req = [r \in Reqs |-> IdleReq]
  /\ sum = IdleSum

(* --------------------------------------------------- the Store (Postgres) *)
\* How a statement ends: it succeeds, the server rejects it, or the
\* connection is lost while it runs.
Outcomes == {"ok", "error", "broken"}

\* What the statement really does on connection k: a lost connection fails
\* everything, an aborted transaction rejects all but COMMIT and ROLLBACK.
Effective(k, stmt, out) ==
  IF k.broken THEN "broken"
  ELSE IF k.tx = "aborted" /\ stmt \notin {"COMMIT", "ROLLBACK"} THEN "error"
  ELSE out

\* The error object the driver rejects the query with.
ErrorOf(stmt, out) == [message |-> <<stmt, out>>]

\* Connection state after a statement that did not succeed.
Failed(k, out) ==
  IF out = "broken"
    THEN [k EXCEPT !.tx = "idle", !.pendBills = {}, !.pendItems = {},
                   !.broken = TRUE]
  ELSE IF k.tx = "open" THEN [k EXCEPT !.tx = "aborted"]
  ELSE k

\* BEGIN that opens no transaction: every later statement commits by itself
BeginWithoutTransaction(k) == k

\* BEGIN: opens a transaction; inside one it only warns.
StoreBegin(k) ==
  IF k.tx = "idle" THEN [k EXCEPT !.tx = "open", !.txStart = clock] ELSE k

\* CURRENT_TIMESTAMP: start of the transaction, or of the statement outside one
CurrentTimestamp(k) == IF k.tx = "open" THEN k.txStart ELSE clock

\* ROLLBACK: discards the pending rows; outside a transaction it only warns.
StoreRollback(k) ==
  [k EXCEPT !.tx = "idle", !.pendBills = {}, !.pendItems = {}]

\* Rows a statement on connection k sees (read committed, plus its own).
VisibleBills(k) == bills \cup k.pendBills
VisibleItems(k) == bill_items \cup k.pendItems

\* a release that forgets the connections that are no longer queryable
ReleaseUnlessBroken(k) ==
  IF k.broken THEN k ELSE [k EXCEPT !.owner = NoClient]

\* client.release() / the release inside pool.query: a connection that is
\* no longer queryable is dropped and replaced, any other goes back as it is.
PoolRelease(k) ==
  IF k.broken THEN FreshConn ELSE [k EXCEPT !.owner = NoClient]

IsFree(c) == conn[c].owner = NoClient

(* ------------------------------------------------- POST /api/bills (358) *)
\* !items || !Array.isArray(items) || items.length === 0
InvalidItems(body) ==
  \/ body.kind = "undefined"
  \/ body.kind # "array"
  \/ Len(body.items) = 0

TypeErrorOf == [message |-> <<"TypeError", "item is null">>]

\* Where the for-of loop stands before its idx-th iteration: past the end it
\* goes on to COMMIT, on a null element reading item.product_id throws.
LoopAt(q, idx) ==
  IF idx > Len(q.body.items) THEN [q EXCEPT !.idx = idx, !.pc = "commit"]
  ELSE IF q.body.items[idx] = Nil
    THEN [q EXCEPT !.idx = idx, !.pc = "rollback", !.err = TypeErrorOf]
  ELSE [q EXCEPT !.idx = idx, !.pc = "insItem"]

\* catch (err): the handler goes on to await client.query('ROLLBACK')
Caught(q, e) == [q EXCEPT !.pc = "rollback", !.err = e]

\* finally { client.release() } and the end of the handler
Finally(q) ==
  [q EXCEPT !.pc = "done", !.released = @ + 1, !.client = NoClient]

\* The statement is sent on the request's checked-out client.
Issue(q, stmt) == [q EXCEPT !.issued = @ \cup {stmt}]

\* const client = await pool.connect()
Connect(r) ==
  /\ req[r].pc = "idle"
  /\ \E body \in Bodies :
       \/ \E c \in Conns :
            /\ IsFree(c)
            /\ conn' = [conn EXCEPT ![c].owner = r]
            /\ req' = [req EXCEPT ![r] =
                         [@ EXCEPT !.pc = "begin", !.body = body, !.client = c,
                                   !.acquired = @ + 1]]
       \/ \* the pool cannot open a connection: the rejection is thrown
          \* outside the try block
          /\ \E c \in Conns : IsFree(c)
          /\ conn' = conn
          /\ req' = [req EXCEPT ![r] =
                       [@ EXCEPT !.pc = "done", !.body = body, !.thrown = TRUE]]
  /\ UNCHANGED <<bills, bill_items, seq, clock, sum>>

\* await client.query('BEGIN'), then the validation of req.body.items
Begin(r) ==
  /\ req[r].pc = "begin"
  /\ \E out \in Outcomes :
       LET c == req[r].client
           k == conn[c]
           e == Effective(k, "BEGIN", out)
           q == Issue(req[r], "BEGIN")
       IN IF e = "ok"
            THEN IF InvalidItems(q.body)
                   THEN /\ req' = [req EXCEPT ![r] =
                             Finally([q EXCEPT !.status = 400,
                                !.payload = [error |-> "Items array is required"]])]
                        /\ conn' = [conn EXCEPT ![c] = PoolRelease(StoreBegin(k))]
                   ELSE /\ req' = [req EXCEPT ![r] = [q EXCEPT !.pc = "insBill"]]
                        /\ conn' = [conn EXCEPT ![c] = StoreBegin(k)]
            ELSE /\ req' = [req EXCEPT ![r] = Caught(q, ErrorOf("BEGIN", e))]
                 /\ conn' = [conn EXCEPT ![c] = Failed(k, e)]
  /\ UNCHANGED <<bills, bill_items, seq, clock, sum>>

\* INSERT INTO bills ... RETURNING *; billId = billResult.rows[0].id
InsertBill(r) ==
  /\ req[r].pc = "insBill"
  /\ \E out \in Outcomes :
       LET c == req[r].client
           k == conn[c]
           e == Effective(k, "INSERT bills", out)
           q == Issue(req[r], "INSERT bills")
           row == [id |-> seq.bill,
                   total_amount |-> q.body.total_amount,
                   total_mrp |-> q.body.total_mrp,
                   total_savings |-> q.body.total_savings,
                   created_by |-> q.body.created_by,
                   created_at |-> CurrentTimestamp(k)]
       IN IF e = "ok"
            THEN /\ req' = [req EXCEPT ![r] =
                              LoopAt([q EXCEPT !.billId = row.id], 1)]
                 /\ seq' = [seq EXCEPT !.bill = @ + 1]
                 /\ IF k.tx = "open"
                      THEN /\ conn' = [conn EXCEPT ![c].pendBills = @ \cup {row}]
                           /\ bills' = bills
                      ELSE /\ conn' = conn
                           /\ bills' = bills \cup {row}
            ELSE /\ req' = [req EXCEPT ![r] = Caught(q, ErrorOf("INSERT bills", e))]
                 /\ conn' = [conn EXCEPT ![c] = Failed(k, e)]
                 /\ UNCHANGED <<bills, seq>>
  /\ UNCHANGED <<bill_items, clock, sum>>

\* one iteration of the loop: INSERT INTO bill_items ...
InsertItem(r) ==
  /\ req[r].pc = "insItem"
  /\ \E out \in Outcomes :
       LET c == req[r].client
           k == conn[c]
           e == Effective(k, "INSERT bill_items", out)
           q == Issue(req[r], "INSERT bill_items")
           item == q.body.items[q.idx]
           row == [id |-> seq.item, bill_id |-> q.billId,
                   product_id |-> item.product_id, name |-> item.name,
                   price |-> item.price, mrp |-> item.mrp,
                   quantity |-> item.quantity]
       IN IF e = "ok"
            THEN /\ req' = [req EXCEPT ![r] = LoopAt(q, q.idx + 1)]
                 /\ seq' = [seq EXCEPT !.item = @ + 1]
                 /\ IF k.tx = "open"
                      THEN /\ conn' = [conn EXCEPT ![c].pendItems = @ \cup {row}]
                           /\ bill_items' = bill_items
                      ELSE /\ conn' = conn
                           /\ bill_items' = bill_items \cup {row}
            ELSE /\ req' = [req EXCEPT ![r] =
                              Caught(q, ErrorOf("INSERT bill_items", e))]
                 /\ conn' = [conn EXCEPT ![c] = Failed(k, e)]
                 /\ UNCHANGED <<bill_items, seq>>
  /\ UNCHANGED <<bills, clock, sum>>

\* COMMIT can also be applied by the server while its acknowledgement is lost
\* with the connection.
CommitOutcomes == Outcomes \cup {"ackLost"}

\* await client.query('COMMIT')
Commit(r) ==
  /\ req[r].pc = "commit"
  /\ \E out \in CommitOutcomes :
       LET c == req[r].client
           k == conn[c]
           e == Effective(k, "COMMIT", out)
           q == Issue(req[r], "COMMIT")
           applied == e \in {"ok", "ackLost"} /\ k.tx = "open"
       IN /\ bills' = IF applied THEN bills \cup k.pendBills ELSE bills
          /\ bill_items' = IF applied THEN bill_items \cup k.pendItems
                           ELSE bill_items
          /\ conn' = [conn EXCEPT ![c] =
               [StoreRollback(k) EXCEPT !.broken = (e \in {"broken", "ackLost"})]]
          /\ req' = [req EXCEPT ![r] =
               IF e = "ok" THEN [q EXCEPT !.pc = "read"]
               ELSE Caught(q, ErrorOf("COMMIT", e))]
  /\ UNCHANGED <<seq, clock, sum>>

\* Rows of the joined read: the bill with its items aggregated by json_agg.
CompleteBill(k, billId) ==
  { [bill |-> b,
     items |-> {i \in VisibleItems(k) : i.bill_id = b.id}] :
    b \in {x \in VisibleBills(k) : x.id = billId} }

\* rows[0] of a result, undefined when there is no row
FirstRow(rows) == IF rows = {} THEN Nil ELSE CHOOSE x \in rows : TRUE

\* const completeBill = await pool.query(SELECT ...); res.status(201)
\* pool.query checks a connection out of the pool for the statement, while
\* the handler still holds its transaction client.
ReadBack(r) ==
  /\ req[r].pc = "read"
  /\ \E out \in Outcomes : \E c2 \in Conns :
       LET c == req[r].client
           k2 == conn[c2]
           e == Effective(k2, "SELECT", out)
           q == req[r]
       IN /\ IsFree(c2)
          /\ IF e = "ok"
               THEN /\ req' = [req EXCEPT ![r] =
                         Finally([q EXCEPT !.status = 201,
                            !.payload = FirstRow(CompleteBill(k2, q.billId))])]
                    /\ conn' = [conn EXCEPT ![c] = PoolRelease(conn[c])]
               ELSE /\ req' = [req EXCEPT ![r] = Caught(q, ErrorOf("SELECT", e))]
                    /\ conn' = [conn EXCEPT ![c2] = PoolRelease(Failed(k2, e))]
  /\ UNCHANGED <<bills, bill_items, seq, clock, sum>>

\* ROLLBACK is rejected only when the connection is lost.
RollbackOutcomes == {"ok", "broken"}

\* catch: await client.query('ROLLBACK'); res.status(500); then finally
Rollback(r) ==
  /\ req[r].pc = "rollback"
  /\ \E out \in RollbackOutcomes :
       LET c == req[r].client
           k == conn[c]
           e == Effective(k, "ROLLBACK", out)
           q == Issue(req[r], "ROLLBACK")
       IN IF e = "ok"
            THEN /\ req' = [req EXCEPT ![r] =
                      Finally([q EXCEPT !.status = 500,
                                        !.payload = [error |-> q.err.message]])]
                 /\ conn' = [conn EXCEPT ![c] = PoolRelease(StoreRollback(k))]
            ELSE \* the rejection of ROLLBACK leaves the catch block
                 /\ req' = [req EXCEPT ![r] = Finally([q EXCEPT !.thrown = TRUE])]
                 /\ conn' = [conn EXCEPT ![c] = PoolRelease(Failed(k, e))]
  /\ UNCHANGED <<bills, bill_items, seq, clock, sum>>

CreateBill(r) ==
  \/ Connect(r)
  \/ Begin(r)
  \/ InsertBill(r)
  \/ InsertItem(r)
  \/ Commit(r)
  \/ ReadBack(r)
  \/ Rollback(r)

(* ------------------------------------------ GET /api/sales/summary (580) *)
\* One condition of the WHERE clause: <alias>.created_at::date <op> $<param>
Condition(op, param) ==
  [alias |-> "b", column |-> "created_at", op |-> op, param |-> param]

\* Lines 584-598: the conditions (joined by AND) and their parameters.
\* An absent or empty parameter is falsy.
WhereClause(start, end) ==
  (IF start # NoDate THEN <<Condition(">=", 1)>> ELSE <<>>)
  \o (IF end # NoDate
        THEN <<Condition("<=", IF start # NoDate THEN 2 ELSE 1)>>
        ELSE <<>>)

QueryParams(start, end) ==
  (IF start # NoDate THEN <<start>> ELSE <<>>)
  \o (IF end # NoDate THEN <<end>> ELSE <<>>)

\* whereClause.replace(/b\./g, '')
StripAlias(where) ==
  [i \in 1..Len(where) |-> [where[i] EXCEPT !.alias = ""]]

\* created_at::date
DateOf(ts) == ts \div TicksPerDay

\* the text parameter compared with a date is read as a date
ParseDate(text) == text[1]

\* the comparison without the cast: the timestamp against the day's midnight
HoldsWithoutCast(cond, b, params) ==
  IF cond.op = ">=" THEN b.created_at >= ParseDate(params[cond.param]) * TicksPerDay
  ELSE b.created_at <= ParseDate(params[cond.param]) * TicksPerDay

\* A condition on one row of bills.
Holds(cond, b, params) ==
  IF cond.op = ">=" THEN DateOf(b.created_at) >= ParseDate(params[cond.param])
  ELSE DateOf(b.created_at) <= ParseDate(params[cond.param])

\* The query is rejected when a condition names a table alias that the FROM
\* clause does not declare.
Resolves(where, fromAlias) ==
  \A i \in 1..Len(where) : where[i].alias = fromAlias

Filtered(B, where, params) ==
  {b \in B : \A i \in 1..Len(where) : Holds(where[i], b, params)}

\* FROM bills b JOIN bill_items bi ON b.id = bi.bill_id WHERE ...
Joined(B, I, where, params) ==
  {i \in I : \E b \in Filtered(B, where, params) : b.id = i.bill_id}

RECURSIVE SumField(_, _)
SumField(S, field) ==
  IF S = {} THEN 0
  ELSE LET x == CHOOSE y \in S : TRUE
       IN x[field] + SumField(S \ {x}, field)

RECURSIVE SumProduct(_, _)
SumProduct(S, field) ==
  IF S = {} THEN 0
  ELSE LET x == CHOOSE y \in S : TRUE
       IN x[field] * x.quantity + SumProduct(S \ {x}, field)

\* SUM() over no row is NULL
SqlSum(S, field) == IF S = {} THEN SqlNull ELSE SumField(S, field)

\* Lines 601-609: an aggregate without GROUP BY returns exactly one row.
SummaryRows(B, where, params) ==
  LET F == Filtered(B, where, params)
  IN { [total_bills |-> Cardinality(F),
        total_sales |-> SqlSum(F, "total_amount"),
        total_savings |-> SqlSum(F, "total_savings"),
        total_mrp |-> SqlSum(F, "total_mrp")] }

\* Lines 612-617
ItemsRows(B, I, where, params) ==
  { [total_items_sold |-> SqlSum(Joined(B, I, where, params), "quantity")] }

\* GROUP BY bi.name, bi.product_id
GroupKeys(J) == { <<i.name, i.product_id>> : i \in J }
GroupOf(J, key) == { i \in J : <<i.name, i.product_id>> = key }

\* Lines 621-625: the row of one group
ProductRow(J, key) ==
  LET G == GroupOf(J, key)
  IN [product_name |-> key[1],
      total_quantity |-> SumField(G, "quantity"),
      total_revenue |-> SumProduct(G, "price"),
      total_mrp_value |-> SumProduct(G, "mrp")]

\* ORDER BY total_revenue DESC leaves rows of equal revenue in any order; the
\* tie order stands for what the Store happens to produce.
TieOrders == {"asc", "desc"}

KeyLess(a, b) == a[1] < b[1] \/ (a[1] = b[1] /\ a[2] < b[2])

Before(ra, rb, tie) ==
  \/ ra.row.total_revenue > rb.row.total_revenue
  \/ /\ ra.row.total_revenue = rb.row.total_revenue
     /\ IF tie = "asc" THEN KeyLess(ra.key, rb.key) ELSE KeyLess(rb.key, ra.key)

RECURSIVE OrderBy(_, _)
OrderBy(R, tie) ==
  IF R = {} THEN <<>>
  ELSE LET first == CHOOSE x \in R : \A y \in R \ {x} : Before(x, y, tie)
       IN <<first>> \o OrderBy(R \ {first}, tie)

\* the ranking without its LIMIT
Unlimited(rows, n) == rows

Limit(rows, n) == SubSeq(rows, 1, IF Len(rows) < n THEN Len(rows) ELSE n)

\* Lines 620-632: the ranked groups, each with its key and its row
TopProducts(B, I, where, params, tie) ==
  LET J == Joined(B, I, where, params)
      R == { [key |-> k, row |-> ProductRow(J, k)] : k \in GroupKeys(J) }
  IN Limit(OrderBy(R, tie), TopLimit)

RowsOf(ranked) == [i \in 1..Len(ranked) |-> ranked[i].row]
KeysOf(ranked) == [i \in 1..Len(ranked) |-> ranked[i].key]

\* a || b on a numeric value that may be NULL: NULL and 0 are falsy
OrZero(v) == IF v = SqlNull \/ v = 0 THEN 0 ELSE v

\* Lines 634-642: the response body
SummaryPayload(summaryRows, itemsRows, topRows) ==
  LET first == FirstRow(summaryRows)
      summary == IF first = Nil
                   THEN [total_bills |-> 0, total_sales |-> 0,
                         total_savings |-> 0, total_mrp |-> 0]
                 ELSE first
      items == FirstRow(itemsRows)
  IN [total_bills |-> summary.total_bills,
      total_sales |-> summary.total_sales,
      total_savings |-> summary.total_savings,
      total_mrp |-> summary.total_mrp,
      total_items_sold |-> IF items = Nil THEN 0
                           ELSE OrZero(items.total_items_sold),
      top_products |-> topRows]

\* catch (err): res.status(500).json({ error: err.message })
SummaryFailed(q, e) ==
  [IdleSum EXCEPT !.pc = "done", !.start = q.start, !.end = q.end,
                  !.status = 500, !.payload = [error |-> e.message]]

\* pool.query on connection c of the pool: the state of c afterwards
AfterPoolQuery(c, e) ==
  [conn EXCEPT ![c] = PoolRelease(IF e = "ok" THEN conn[c] ELSE Failed(conn[c], e))]

\* The request arrives with its start and end parameters, the WHERE clause is
\* built and the bill-level totals are queried.
SummaryTotals(ranges) ==
  /\ sum.pc = "idle"
  /\ \E range \in ranges : \E out \in Outcomes : \E c \in Conns :
       LET k == conn[c]
           where == WhereClause(range[1], range[2])
           params == QueryParams(range[1], range[2])
           sent == StripAlias(where)
           e0 == Effective(k, "SELECT", out)
           e == IF e0 = "ok" /\ ~Resolves(sent, "") THEN "error" ELSE e0
           q == [sum EXCEPT !.start = range[1], !.end = range[2]]
       IN /\ IsFree(c)
          /\ conn' = AfterPoolQuery(c, e)
          /\ sum' = IF e = "ok"
               THEN [q EXCEPT !.pc = "items",
                      !.summaryResult = SummaryRows(VisibleBills(k), sent, params),
                      !.seen[1] = {b.id : b \in Filtered(VisibleBills(k), sent, params)}]
               ELSE SummaryFailed(q, ErrorOf("SELECT", e))
  /\ UNCHANGED <<bills, bill_items, seq, clock, req>>

\* const itemsResult = await pool.query(...)
SummaryItems ==
  /\ sum.pc = "items"
  /\ \E out \in Outcomes : \E c \in Conns :
       LET k == conn[c]
           where == WhereClause(sum.start, sum.end)
           params == QueryParams(sum.start, sum.end)
           e0 == Effective(k, "SELECT", out)
           e == IF e0 = "ok" /\ ~Resolves(where, "b") THEN "error" ELSE e0
       IN /\ IsFree(c)
          /\ conn' = AfterPoolQuery(c, e)
          /\ sum' = IF e = "ok"
               THEN [sum EXCEPT !.pc = "top",
                      !.itemsResult =
                         ItemsRows(VisibleBills(k), VisibleItems(k), where, params),
                      !.seen[2] = {i.bill_id :
                         i \in Joined(VisibleBills(k), VisibleItems(k), where, params)}]
               ELSE SummaryFailed(sum, ErrorOf("SELECT", e))
  /\ UNCHANGED <<bills, bill_items, seq, clock, req>>

\* const topProductsResult = await pool.query(...); res.json(...)
SummaryTop ==
  /\ sum.pc = "top"
  /\ \E out \in Outcomes : \E c \in Conns : \E tie \in TieOrders :
       LET k == conn[c]
           where == WhereClause(sum.start, sum.end)
           params == QueryParams(sum.start, sum.end)
           e0 == Effective(k, "SELECT", out)
           e == IF e0 = "ok" /\ ~Resolves(where, "b") THEN "error" ELSE e0
           ranked == TopProducts(VisibleBills(k), VisibleItems(k), where, params, tie)
       IN /\ IsFree(c)
          /\ conn' = AfterPoolQuery(c, e)
          /\ sum' = IF e = "ok"
               THEN [sum EXCEPT !.pc = "done", !.status = 200,
                      !.topProductsResult = RowsOf(ranked),
                      !.topKeys = KeysOf(ranked),
                      !.seen[3] = {i.bill_id :
                         i \in Joined(VisibleBills(k), VisibleItems(k), where, params)},
                      !.payload = SummaryPayload(sum.summaryResult, sum.itemsResult,
                                                 RowsOf(ranked))]
               ELSE SummaryFailed(sum, ErrorOf("SELECT", e))
  /\ UNCHANGED <<bills, bill_items, seq, clock, req>>

\* the response is sent; the next summary request can arrive
SummaryNext ==
  /\ sum.pc = "done"
  /\ sum' = IdleSum
  /\ UNCHANGED <<bills, bill_items, seq, clock, conn, req>>

\* with neither start nor end
AllTime == { <<NoDate, NoDate>> }

\* every combination of start and end
DateParams == {NoDate} \cup {DateText(d) : d \in Days}
DateRanges == DateParams \X DateParams

\* time passes
Tick ==
  /\ clock < MaxClock
  /\ clock' = clock + 1
  /\ UNCHANGED <<bills, bill_items, seq, conn, req, sum>>

(* ------------------------------ concurrent createBill requests (Spec) *)
Next == \E r \in Reqs : CreateBill(r)

Spec == Init /\ [][Next]_vars

(* ------------------- a summary asked while createBill requests commit *)
RaceStep ==
  \/ \E r \in Reqs : CreateBill(r)
  \/ SummaryTotals(AllTime)
  \/ SummaryItems
  \/ SummaryTop
  \/ SummaryNext

RaceSpec == Init /\ [][RaceStep]_vars

(* ----------------------- the summary over a store that holds whole bills *)
Prefix(n, q) == [p \in 1..n |-> Item(p, q)]

\* the line items of the bills already recorded
SeedItems ==
  { Prefix(NProducts - 1, 1), Prefix(NProducts, 1),
    <<Item(NProducts - 1, MaxQty)>> }

\* A bill recorded earlier by a completed POST /api/bills: one bills row and
\* one bill_items row per line item, created at the current time.
SeedBill ==
  /\ sum.pc = "idle"
  /\ Cardinality(bills) < MaxSeed
  /\ \E items \in SeedItems :
       LET body == Body("array", items)
       IN /\ bills' = bills \cup
               { [id |-> seq.bill,
                  total_amount |-> body.total_amount,
                  total_mrp |-> body.total_mrp,
                  total_savings |-> body.total_savings,
                  created_by |-> body.created_by,
                  created_at |-> clock] }
          /\ bill_items' = bill_items \cup
               { [id |-> seq.item + n - 1, bill_id |-> seq.bill,
                  product_id |-> items[n].product_id, name |-> items[n].name,
                  price |-> items[n].price, mrp |-> items[n].mrp,
                  quantity |-> items[n].quantity] : n \in 1..Len(items) }
          /\ seq' = [bill |-> seq.bill + 1, item |-> seq.item + Len(items)]
  /\ UNCHANGED <<clock, conn, req, sum>>

SummaryStep ==
  \/ SeedBill
  \/ Tick
  \/ SummaryTotals(DateRanges)
  \/ SummaryItems
  \/ SummaryTop
  \/ SummaryNext

SummarySpec == Init /\ [][SummaryStep]_vars

(* ================================================================ claims *)
InFlight(r) == req[r].pc \notin {"idle", "done"}
AllDone == \A r \in Reqs : req[r].pc = "done"
BillRowsOf(r) == {b \in bills : b.id = req[r].billId}
ItemRowsOf(r) == {i \in bill_items : i.bill_id = req[r].billId}

\* C1: at every moment the committed store holds, of each createBill request,
\* either no row at all or its one bills row with all N bill_items rows; and
\* no row of either table belongs to no request.
C1_Atomic ==
  /\ \A r \in Reqs :
       \/ BillRowsOf(r) = {} /\ ItemRowsOf(r) = {}
       \/ /\ Cardinality(BillRowsOf(r)) = 1
          /\ Cardinality(ItemRowsOf(r)) = Len(req[r].body.items)
  /\ \A b \in bills : \E r \in Reqs : req[r].billId = b.id
  /\ \A i \in bill_items : \E b \in bills : b.id = i.bill_id

\* One request has committed a bill of two items while another, whose item
\* insert failed after its bill insert, has left nothing.
C1_Witness ==
  \E r1, r2 \in Reqs :
    /\ req[r1].status = 201
    /\ Cardinality(ItemRowsOf(r1)) = 2
    /\ req[r2].status = 500
    /\ req[r2].billId # 0
    /\ req[r2].err = ErrorOf("INSERT bill_items", "error")
    /\ BillRowsOf(r2) = {}

\* C2: a finished createBill whose items are missing, not an array or empty
\* has answered 400 "Items array is required" and has issued no INSERT.
C2_InvalidItemsRejected ==
  \A r \in Reqs :
    (req[r].pc = "done" /\ InvalidItems(req[r].body)) =>
      /\ req[r].status = 400
      /\ req[r].payload = [error |-> "Items array is required"]
      /\ req[r].issued \cap {"INSERT bills", "INSERT bill_items"} = {}

\* C3: a createBill whose items are missing, not an array or empty never
\* issues BEGIN: it opens no transaction on any connection.
C3_ValidationBeforeStore ==
  \A r \in Reqs :
    (req[r].pc # "idle" /\ InvalidItems(req[r].body)) =>
      "BEGIN" \notin req[r].issued

\* C4: while a createBill request is under way, some createBill request can
\* take its next step: no set of requests waits for ever for a connection.
C4_RunsToCompletion ==
  (\E r \in Reqs : InFlight(r)) => ENABLED (\E r \in Reqs : CreateBill(r))

\* C5: a createBill that caught an error has answered 500 with the message
\* of that error, also when its ROLLBACK was rejected.
C5_RollbackFailureContained ==
  \A r \in Reqs :
    (req[r].pc = "done" /\ req[r].err # Nil) =>
      /\ ~req[r].thrown
      /\ req[r].status = 500
      /\ req[r].payload = [error |-> req[r].err.message]

\* C6: a request under way holds exactly the connection it checked out, a
\* finished request has released it exactly once, a connection is held only
\* by a request under way, and so none is held once all have finished.
C6_ReleasedOnce ==
  /\ \A r \in Reqs :
       /\ InFlight(r) =>
            /\ req[r].acquired = 1
            /\ req[r].released = 0
            /\ conn[req[r].client].owner = r
       /\ req[r].pc = "done" => req[r].released = req[r].acquired
  /\ \A c \in Conns :
       conn[c].owner # NoClient =>
         InFlight(conn[c].owner) /\ req[conn[c].owner].client = c
  /\ AllDone => \A c \in Conns : IsFree(c)

\* All requests have finished: one was rejected with 400, one let the
\* rejection of its ROLLBACK escape; each released its connection.
C6_Witness ==
  /\ AllDone
  /\ \E r1, r2 \in Reqs :
       /\ req[r1].status = 400
       /\ req[r1].released = 1
       /\ req[r2].thrown
       /\ "ROLLBACK" \in req[r2].issued
       /\ req[r2].released = 1
  /\ \A c \in Conns : IsFree(c)

(* ------------------------------------------------ claims on the summary *)
Answered == sum.pc = "done" /\ sum.status = 200

\* the bill is inside the asked range of dates, both ends included
InRange(b) ==
  /\ sum.start = NoDate \/ DateOf(b.created_at) >= ParseDate(sum.start)
  /\ sum.end = NoDate \/ DateOf(b.created_at) <= ParseDate(sum.end)

BillsInRange == {b \in bills : InRange(b)}
ItemsInRange == {i \in bill_items : \E b \in BillsInRange : b.id = i.bill_id}

\* C7: with no date filter and no bill in the store the summary answers zero
\* for the four totals and for total_items_sold, and no top product.
C7_EmptyStoreAllZero ==
  (Answered /\ sum.start = NoDate /\ sum.end = NoDate /\ bills = {}) =>
    /\ sum.payload.total_bills = 0
    /\ sum.payload.total_sales = 0
    /\ sum.payload.total_savings = 0
    /\ sum.payload.total_mrp = 0
    /\ sum.payload.total_items_sold = 0
    /\ sum.payload.top_products = <<>>

\* C8: each of the three queries ranges over exactly the bills whose creation
\* date is inside [start, end], an absent bound not restricting, and the
\* totals answered are those of these bills.
C8_SameInclusiveFilter ==
  Answered =>
    /\ \A n \in 1..3 : sum.seen[n] = {b.id : b \in BillsInRange}
    /\ sum.payload.total_bills = Cardinality(BillsInRange)
    /\ sum.payload.total_sales = SqlSum(BillsInRange, "total_amount")
    /\ sum.payload.total_items_sold = SumField(ItemsInRange, "quantity")

\* A summary asked for one single day has counted a bill created on that day
\* after midnight and has left out a bill of another day.
C8_Witness ==
  /\ Answered
  /\ sum.start # NoDate
  /\ sum.end = sum.start
  /\ \E b \in BillsInRange :
       /\ b.created_at % TicksPerDay # 0
       /\ DateOf(b.created_at) = ParseDate(sum.start)
  /\ bills \ BillsInRange # {}

Revenue(key) == SumProduct(GroupOf(ItemsInRange, key), "price")
Ranked == {sum.topKeys[n] : n \in 1..Len(sum.topKeys)}

\* C9: top_products has at most 10 entries, one per (name, product_id) group
\* of the items of the bills in range and as many as there are groups up to
\* 10, each with the revenue sum of price * quantity of its group, in order of
\* non-increasing revenue, and no group left out earns more than one listed.
C9_TopProducts ==
  Answered =>
    LET top == sum.payload.top_products
        keys == sum.topKeys
        all == GroupKeys(ItemsInRange)
    IN /\ Len(top) <= 10
       /\ Len(top) = Len(keys)
       /\ Len(top) = (IF Cardinality(all) < 10 THEN Cardinality(all) ELSE 10)
       /\ Ranked \subseteq all
       /\ Cardinality(Ranked) = Len(keys)
       /\ \A n \in 1..Len(top) :
            /\ top[n].product_name = keys[n][1]
            /\ top[n].total_revenue = Revenue(keys[n])
       /\ \A n \in 1..(Len(top) - 1) :
            top[n].total_revenue >= top[n + 1].total_revenue
       /\ \A k \in all \ Ranked : \A n \in 1..Len(top) :
            Revenue(k) <= top[n].total_revenue

\* More than 10 groups are sold: 10 are listed, of unequal revenues, and a
\* group left out earns as much as the last one listed.
C9_Witness ==
  /\ Answered
  /\ Cardinality(GroupKeys(ItemsInRange)) > 10
  /\ Len(sum.payload.top_products) = 10
  /\ sum.payload.top_products[1].total_revenue
       > sum.payload.top_products[10].total_revenue
  /\ \E k \in GroupKeys(ItemsInRange) \ Ranked :
       Revenue(k) = sum.payload.top_products[10].total_revenue

\* C10: the three aggregates of one response are computed over one and the
\* same set of bills.
C10_OneBillSet ==
  Answered => (sum.seen[1] = sum.seen[2] /\ sum.seen[2] = sum.seen[3])

(* --------------------------------------------- claims on the idle pool *)
\* C11: a connection that is idle in the pool has no transaction open (nor
\* aborted) and no pending row: every BEGIN issued on it was followed by a
\* COMMIT or a ROLLBACK before client.release().
C11_IdleConnectionsClean ==
  \A c \in Conns :
    IsFree(c) =>
      /\ conn[c].tx = "idle"
      /\ conn[c].pendBills = {}
      /\ conn[c].pendItems = {}

\* C12: a createBill that answered 500 has left no bills row and no
\* bill_items row of its own in the committed store.
C12_ErrorMeansNothingPersisted ==
  \A r \in Reqs :
    req[r].status = 500 => (BillRowsOf(r) = {} /\ ItemRowsOf(r) = {})

====
